---- MODULE Spec2Model ----
(***************************************************************************)
(* Durable task execution: the stack run scheduler                         *)
(* (simple-stack-processor), the task sandbox (deno-executor) and the      *)
(* submission handler, over the shared tables task_runs, stack_runs and    *)
(* task_locks.  Every database statement of a handler is one atomic step   *)
(* of the worker that runs it; workers interleave between statements.      *)
(***************************************************************************)
EXTENDS Integers, Sequences, FiniteSets, TLC

(* ------------------------------ bounds --------------------------------- *)
\* rows the stack_runs table can hold; a further insert is rejected
MaxStackRuns == 3
\* task runs that are submitted while every worker interleaving is explored
MaxTasks == 1
\* chains (task run ids) that exist; all of them are submitted when only
\* process-next requests are explored
MaxChains == 2
\* scheduler workers that handle requests concurrently
NWorkers == 2

(* ------------------------- program constants --------------------------- *)
\* cleanupStaleLocks: locks older than 5 minutes are deleted
LockStaleMinutes == 5
\* cleanupStaleLocks: processing rows older than 2 minutes are failed
StepStaleMinutes == 2
\* tryLockTaskChain: retries = 3
LockRetries == 3
\* statusHandler: a task run without a completed stack run is marked 'error'
\* after 120 seconds
StatusStaleMinutes == 2

Workers == 1..NWorkers
NoId == 0
NoLock == -1
NoWorker == 0
Undef == "undef"
Null == "null"
Terminal == {"completed", "failed"}

\* Task code is an input.  "call1": deterministic code that calls
\* __callHostTool__ once and returns a value computed from the result.
\* "any": code whose outcome may differ from one execution to the next
\* (Date, Math.random and crypto are in the task's environment).
TaskKinds == {"call1", "any"}
Outcomes == {"ret", "throw", "call"}

\* The service names task code passes to __callHostTool__: an alias of the
\* sandbox's service map and the name of a wrapped endpoint itself.
Services == {"gapi", "wrappedgapi"}
\* The method path the task code passes, joined with '.'.
TaskMethod == "admin.domains.list"
\* What the wrapped endpoint answers: an object, or a raw array.
EndpointValues == {"ev", "arr"}

VARIABLES
  trs,      \* task_runs: sequence of rows, id = index
  srs,      \* stack_runs: sequence of rows, id = index, in created_at order
  locks,    \* task_locks: chain id -> age of the row in minutes, or NoLock
  wk,       \* scheduler workers: position in the request handler and locals
  resumed,  \* history: stack run id -> number of POSTs to deno-executor/resume made for it as the finished child
  lockedBy, \* task_locks.locked_by: chain id -> the worker that inserted the row, or NoWorker
  everTerminal, \* history: ids of the stack runs that have been completed or failed
  everCompleted \* history: ids of the stack runs that have been completed

vars == <<trs, srs, locks, lockedBy, wk, resumed, everTerminal, everCompleted>>

Ids == 1..Len(srs)
Chains == 1..MaxChains

IdleWorker ==
  [pc |-> "idle", cur |-> NoId, byp |-> FALSE, att |-> 0, child |-> NoId, path |-> "none",
   res |-> Null]

(* ------------------------------ helpers -------------------------------- *)
Min(S) == CHOOSE x \in S : \A y \in S : x <= y
Max(S) == CHOOSE x \in S : \A y \in S : x >= y

IsRoot(s) == srs[s].parent = NoId

\* the task code's possible outcomes when the sandbox executes it
TaskOutcomes(t) == IF trs[t].kind = "call1" THEN {"call"} ELSE Outcomes

\* updateStackRunStatus(id, status, result?, error?): result and error are
\* written only when passed; updated_at is set to now.  updated_at is kept
\* as the row's age and is read only of processing rows.
updateStackRunStatus(tbl, id, st, res, err) ==
  [tbl EXCEPT ![id] = [@ EXCEPT !.status = st, !.age = 0,
                                !.result = IF res = Undef THEN @ ELSE res,
                                !.error = IF err = Undef THEN @ ELSE err]]

NoteTerminal(tbl) == everTerminal \cup {i \in 1..Len(tbl) : tbl[i].status \in Terminal}
NoteCompleted(tbl) == everCompleted \cup {i \in 1..Len(tbl) : tbl[i].status = "completed"}

\* locked_by of the rows that remain in task_locks
OwnerAfter(lk) == [t \in Chains |-> IF lk[t] = NoLock THEN NoWorker ELSE lockedBy[t]]

\* makeExternalCall: serviceMap[serviceName] || serviceName
serviceMap ==
  [database |-> "wrappedsupabase", keystore |-> "wrappedkeystore",
   openai |-> "wrappedopenai", websearch |-> "wrappedwebsearch", gapi |-> "wrappedgapi"]

actualServiceName(serviceName) ==
  IF serviceName \in DOMAIN serviceMap THEN serviceMap[serviceName] ELSE serviceName

\* resumeParentTask: formattedResult, the raw array of wrappedgapi's
\* admin.domains.list / admin.users.list wrapped as {domains: ...} / {users: ...}
formattedResult(service, method, result) ==
  IF service = "wrappedgapi" /\ method = "admin.domains.list" /\ result = "arr"
  THEN "{domains: arr}"
  ELSE IF service = "wrappedgapi" /\ method = "admin.users.list" /\ result = "arr"
  THEN "{users: arr}"
  ELSE result

\* the row makeExternalCall / tasksHandler inserts
NewStackRun(chain, parent, service, method) ==
  [chain |-> chain, parent |-> parent, service |-> service, method |-> method,
   status |-> "pending",
   result |-> Null, error |-> Null, waiting |-> NoId, payload |-> Null, age |-> 0]

\* unlockTaskChain: delete the lock row of the chain, whoever inserted it
unlockTaskChain(lk, t) == [lk EXCEPT ![t] = NoLock]

\* isTaskChainBusy: some row of the chain is processing
isTaskChainBusy(t) == \E i \in Ids : srs[i].chain = t /\ srs[i].status = "processing"

\* cleanupStaleLocks, first statement: delete locks older than 5 minutes
SweepLocks(lk) == [t \in Chains |-> IF lk[t] > LockStaleMinutes THEN NoLock ELSE lk[t]]

\* SweepRuns that fails every processing row, whatever its age
SweepRunsIgnoresAge(tbl) ==
  [i \in 1..Len(tbl) |->
     IF tbl[i].status = "processing"
     THEN [tbl[i] EXCEPT !.status = "failed", !.error = "timeout"]
     ELSE tbl[i]]

\* cleanupStaleLocks, second statement: fail processing rows older than 2
\* minutes; the update writes status and error only, not updated_at
SweepRuns(tbl) ==
  [i \in 1..Len(tbl) |->
     IF tbl[i].status = "processing" /\ tbl[i].age > StepStaleMinutes
     THEN [tbl[i] EXCEPT !.status = "failed", !.error = "timeout"]
     ELSE tbl[i]]

\* getNextPendingStackRun: the oldest pending row with no older pending row in its chain
ReadyRuns ==
  LET pend == {i \in Ids : srs[i].status = "pending"}
  IN {i \in pend : ~ \E j \in pend : srs[j].chain = srs[i].chain /\ j < i}

\* processStackRunInternal: the bypass rule for a child step
canProcess(s) ==
  LET p == srs[s].parent IN
  /\ p # NoId
  /\ \/ (srs[p].status = "suspended_waiting_child" /\ srs[p].waiting = s)
     \/ srs[p].status = "completed"
     \/ (srs[p].waiting # NoId /\ srs[p].waiting # s)

(* ------------------------------- Init ---------------------------------- *)
Init ==
  /\ trs = <<>>
  /\ srs = <<>>
  /\ locks = [t \in Chains |-> NoLock]
  /\ lockedBy = [t \in Chains |-> NoWorker]
  /\ wk = [w \in Workers |-> IdleWorker]
  /\ resumed = [i \in 1..MaxStackRuns |-> 0]
  /\ everTerminal = {}
  /\ everCompleted = {}

(* ------------------------------ actions -------------------------------- *)
\* tasksHandler: insert the task_run (queued) and its root stack_run (pending)
SubmitUpTo(n, k) ==
  /\ Len(trs) < n
  /\ Len(srs) < MaxStackRuns
  /\ trs' = Append(trs, [kind |-> k, status |-> "queued", result |-> Null,
                         ended |-> FALSE, waiting |-> NoId, age |-> 0])
  /\ srs' = Append(srs, NewStackRun(Len(trs) + 1, NoId, "deno-executor", "execute"))
  /\ UNCHANGED <<locks, lockedBy, wk, resumed, everTerminal, everCompleted>>

Submit(k) == SubmitUpTo(MaxTasks, k)

\* serve, {trigger: 'process-next'}: the sweeper pass, then selection
ServeNext(w) ==
  /\ wk[w].pc = "idle"
  /\ locks' = SweepLocks(locks)
  /\ lockedBy' = OwnerAfter(locks')
  /\ srs' = SweepRuns(srs)
  /\ everTerminal' = NoteTerminal(srs')
  /\ everCompleted' = NoteCompleted(srs')
  /\ wk' = [wk EXCEPT ![w].pc = "select"]
  /\ UNCHANGED <<trs, resumed>>

\* serve, {stackRunId}: the sweeper pass, then processStackRun(stackRunId)
ServeDirect(w, s) ==
  /\ wk[w].pc = "idle"
  /\ s \in Ids
  /\ locks' = SweepLocks(locks)
  /\ lockedBy' = OwnerAfter(locks')
  /\ srs' = SweepRuns(srs)
  /\ everTerminal' = NoteTerminal(srs')
  /\ everCompleted' = NoteCompleted(srs')
  /\ wk' = [wk EXCEPT ![w].pc = "check", ![w].cur = s]
  /\ UNCHANGED <<trs, resumed>>

\* processSingleStackRun: getNextPendingStackRun
Select(w) ==
  /\ wk[w].pc = "select"
  /\ wk' = [wk EXCEPT ![w] = IF ReadyRuns = {} THEN IdleWorker
                             ELSE [@ EXCEPT !.pc = "check", !.cur = Min(ReadyRuns)]]
  /\ UNCHANGED <<trs, srs, locks, lockedBy, resumed, everTerminal, everCompleted>>

\* Check that goes on with a stack run that is no longer pending
CheckIgnoresStatus(w) ==
  LET s == wk[w].cur IN
  /\ wk[w].pc = "check"
  /\ wk' = [wk EXCEPT ![w] =
       IF isTaskChainBusy(srs[s].chain) THEN IdleWorker
       ELSE IF canProcess(s) THEN [@ EXCEPT !.pc = "setproc", !.byp = TRUE]
       ELSE [@ EXCEPT !.pc = "lock", !.att = 1]]
  /\ UNCHANGED <<trs, srs, locks, lockedBy, resumed, everTerminal, everCompleted>>

\* Check that lets every child step bypass the chain lock
CheckBypassesEveryChild(w) ==
  LET s == wk[w].cur IN
  /\ wk[w].pc = "check"
  /\ wk' = [wk EXCEPT ![w] =
       IF srs[s].status # "pending" \/ isTaskChainBusy(srs[s].chain) THEN IdleWorker
       ELSE IF srs[s].parent # NoId THEN [@ EXCEPT !.pc = "setproc", !.byp = TRUE]
       ELSE [@ EXCEPT !.pc = "lock", !.att = 1]]
  /\ UNCHANGED <<trs, srs, locks, lockedBy, resumed, everTerminal, everCompleted>>

\* processStackRunInternal: getStackRun, isTaskChainBusy, the parent read
Check(w) ==
  LET s == wk[w].cur IN
  /\ wk[w].pc = "check"
  /\ wk' = [wk EXCEPT ![w] =
       IF srs[s].status # "pending" \/ isTaskChainBusy(srs[s].chain) THEN IdleWorker
       ELSE IF canProcess(s) THEN [@ EXCEPT !.pc = "setproc", !.byp = TRUE]
       ELSE [@ EXCEPT !.pc = "lock", !.att = 1]]
  /\ UNCHANGED <<trs, srs, locks, lockedBy, resumed, everTerminal, everCompleted>>

\* tryLockTaskChain that makes one more attempt than retries allows
tryLockTaskChainExtraAttempt(w) ==
  LET t == srs[wk[w].cur].chain IN
  /\ wk[w].pc = "lock"
  /\ IF locks[t] = NoLock
     THEN /\ locks' = [locks EXCEPT ![t] = 0]
          /\ lockedBy' = [lockedBy EXCEPT ![t] = w]
          /\ wk' = [wk EXCEPT ![w].pc = "setproc", ![w].att = 0]
     ELSE /\ locks' = locks
          /\ lockedBy' = lockedBy
          /\ wk' = [wk EXCEPT ![w] = IF @.att < LockRetries + 1
                                     THEN [@ EXCEPT !.att = @ + 1]
                                     ELSE IdleWorker]
  /\ UNCHANGED <<trs, srs, resumed, everTerminal, everCompleted>>

\* tryLockTaskChain whose last failed attempt marks the candidate failed
tryLockTaskChainFailsCandidate(w) ==
  LET t == srs[wk[w].cur].chain IN
  /\ wk[w].pc = "lock"
  /\ IF locks[t] = NoLock
     THEN /\ locks' = [locks EXCEPT ![t] = 0]
          /\ lockedBy' = [lockedBy EXCEPT ![t] = w]
          /\ wk' = [wk EXCEPT ![w].pc = "setproc", ![w].att = 0]
          /\ srs' = srs
     ELSE /\ locks' = locks
          /\ lockedBy' = lockedBy
          /\ wk' = [wk EXCEPT ![w] = IF @.att < LockRetries
                                     THEN [@ EXCEPT !.att = @ + 1]
                                     ELSE IdleWorker]
          /\ srs' = IF wk[w].att < LockRetries THEN srs
                    ELSE updateStackRunStatus(srs, wk[w].cur, "failed", Null, "lock")
  /\ everTerminal' = NoteTerminal(srs')
  /\ everCompleted' = NoteCompleted(srs')
  /\ UNCHANGED <<trs, resumed>>

\* tryLockTaskChain: one insert attempt
tryLockTaskChain(w) ==
  LET t == srs[wk[w].cur].chain IN
  /\ wk[w].pc = "lock"
  /\ IF locks[t] = NoLock
     THEN /\ locks' = [locks EXCEPT ![t] = 0]
          /\ lockedBy' = [lockedBy EXCEPT ![t] = w]
          /\ wk' = [wk EXCEPT ![w].pc = "setproc", ![w].att = 0]
     ELSE /\ locks' = locks
          /\ lockedBy' = lockedBy
          /\ wk' = [wk EXCEPT ![w] = IF @.att < LockRetries
                                     THEN [@ EXCEPT !.att = @ + 1]
                                     ELSE IdleWorker]
  /\ UNCHANGED <<trs, srs, resumed, everTerminal, everCompleted>>

\* SetProcessing that dispatches before the processing write is made
SetProcessingAfterCall(w) ==
  /\ wk[w].pc = "setproc"
  /\ wk' = [wk EXCEPT ![w].pc = "call"]
  /\ UNCHANGED <<trs, srs, locks, lockedBy, resumed, everTerminal, everCompleted>>

\* processStackRunInternal: updateStackRunStatus(stackRunId, 'processing')
SetProcessing(w) ==
  /\ wk[w].pc = "setproc"
  /\ srs' = updateStackRunStatus(srs, wk[w].cur, "processing", Undef, Undef)
  /\ wk' = [wk EXCEPT ![w].pc = "call"]
  /\ UNCHANGED <<trs, locks, lockedBy, resumed, everTerminal, everCompleted>>

\* processStackRunInternal, catch and finally of a dispatch error that is not
\* the suspension signal: unlock unless bypassed, updateStackRunStatus(failed)
FailStep(w) ==
  LET s == wk[w].cur IN
  /\ srs' = updateStackRunStatus(srs, s, "failed", Null, "dispatch")
  /\ locks' = IF wk[w].byp THEN locks ELSE unlockTaskChain(locks, srs[s].chain)
  /\ lockedBy' = OwnerAfter(locks')
  /\ wk' = [wk EXCEPT ![w] = IdleWorker]
  /\ everTerminal' = NoteTerminal(srs')
  /\ everCompleted' = NoteCompleted(srs')
  /\ UNCHANGED <<trs, resumed>>

\* processServiceCall of an external step: the endpoint answers with a value
\* of the given kinds, and processStackRunInternal writes completed with it
EndpointReturnsWith(w, values) ==
  LET s == wk[w].cur IN
  /\ wk[w].pc = "call"
  /\ ~ IsRoot(s)
  /\ \E v \in values :
       /\ srs' = updateStackRunStatus(srs, s, "completed", v, Undef)
       /\ wk' = [wk EXCEPT ![w].pc = "rread", ![w].res = v]
  /\ everTerminal' = NoteTerminal(srs')
  /\ everCompleted' = NoteCompleted(srs')
  /\ UNCHANGED <<trs, locks, lockedBy, resumed>>

\* the endpoint answers with an object
EndpointReturns(w) == EndpointReturnsWith(w, {"ev"})

\* EndpointFails that runs the resumption path for the failed child
EndpointFailsThenResumes(w) ==
  LET s == wk[w].cur IN
  /\ wk[w].pc = "call"
  /\ ~ IsRoot(s)
  /\ srs' = updateStackRunStatus(srs, s, "failed", Null, "dispatch")
  /\ wk' = [wk EXCEPT ![w].pc = "rread"]
  /\ everTerminal' = NoteTerminal(srs')
  /\ everCompleted' = NoteCompleted(srs')
  /\ UNCHANGED <<trs, locks, lockedBy, resumed>>

\* processServiceCall of an external step: the endpoint answers with an error
EndpointFails(w) ==
  /\ wk[w].pc = "call"
  /\ ~ IsRoot(wk[w].cur)
  /\ FailStep(w)

\* processServiceCall of the root step, handleExecuteRequest: the task code returns
\* a value; the scheduler stores the executor's response as the step's result
ExecuteReturns(w) ==
  LET s == wk[w].cur IN
  /\ wk[w].pc = "call"
  /\ IsRoot(s)
  /\ "ret" \in TaskOutcomes(srs[s].chain)
  /\ srs' = updateStackRunStatus(srs, s, "completed", "resp_tv", Undef)
  /\ wk' = [wk EXCEPT ![w].pc = "fin", ![w].path = "ok"]
  /\ everTerminal' = NoteTerminal(srs')
  /\ everCompleted' = NoteCompleted(srs')
  /\ UNCHANGED <<trs, locks, lockedBy, resumed>>

\* the task code throws, or its __callHostTool__ cannot insert the child row:
\* handleExecuteRequest answers 500 and the dispatch fails
ExecuteFails(w) ==
  LET s == wk[w].cur IN
  /\ wk[w].pc = "call"
  /\ IsRoot(s)
  /\ \/ "throw" \in TaskOutcomes(srs[s].chain)
     \/ ("call" \in TaskOutcomes(srs[s].chain) /\ Len(srs) >= MaxStackRuns)
  /\ FailStep(w)

\* makeExternalCallInsertFor that leaves parent_stack_run_id out of the child
makeExternalCallInsertWithoutParent(w, from, to, serviceName) ==
  LET s == wk[w].cur IN
  /\ wk[w].pc = from
  /\ from = "call" => IsRoot(s)
  /\ "call" \in TaskOutcomes(srs[s].chain)
  /\ Len(srs) < MaxStackRuns
  /\ srs' = Append(srs, NewStackRun(srs[s].chain, NoId, actualServiceName(serviceName), TaskMethod))
  /\ wk' = [wk EXCEPT ![w].pc = to, ![w].child = Len(srs) + 1]
  /\ resumed' = IF from = "rcall" THEN [resumed EXCEPT ![s] = @ + 1] ELSE resumed
  /\ UNCHANGED <<trs, locks, lockedBy, everTerminal, everCompleted>>

\* makeExternalCall(serviceName, ...), first statement: insert the child
\* stack run (pending) for the step the sandbox executes
makeExternalCallInsertFor(w, from, to, serviceName) ==
  LET s == wk[w].cur
      p == IF from = "call" THEN s ELSE srs[s].parent IN
  /\ wk[w].pc = from
  /\ from = "call" => IsRoot(s)
  /\ "call" \in TaskOutcomes(srs[s].chain)
  /\ Len(srs) < MaxStackRuns
  /\ srs' = Append(srs, NewStackRun(srs[s].chain, p, actualServiceName(serviceName), TaskMethod))
  /\ wk' = [wk EXCEPT ![w].pc = to, ![w].child = Len(srs) + 1]
  /\ resumed' = IF from = "rcall" THEN [resumed EXCEPT ![s] = @ + 1] ELSE resumed
  /\ UNCHANGED <<trs, locks, lockedBy, everTerminal, everCompleted>>

\* __callHostTool__(serviceName, methodPath, args) of the task code
makeExternalCallInsert(w, from, to) ==
  \E serviceName \in Services : makeExternalCallInsertFor(w, from, to, serviceName)

\* makeExternalCall whose update names the calling step instead of the new child
makeExternalCallUpdateNamesCaller(w, from, to) ==
  LET s == wk[w].cur
      p == IF from = "sbupd" THEN s ELSE srs[s].parent IN
  /\ wk[w].pc = from
  /\ srs' = [srs EXCEPT ![p] = [@ EXCEPT !.status = "suspended_waiting_child",
                                         !.waiting = p, !.age = 0]]
  /\ wk' = [wk EXCEPT ![w].pc = to]
  /\ UNCHANGED <<trs, locks, lockedBy, resumed, everTerminal, everCompleted>>

\* makeExternalCall, second statement: the calling step becomes
\* suspended_waiting_child on the new child
makeExternalCallUpdate(w, from, to) ==
  LET s == wk[w].cur
      p == IF from = "sbupd" THEN s ELSE srs[s].parent IN
  /\ wk[w].pc = from
  /\ srs' = [srs EXCEPT ![p] = [@ EXCEPT !.status = "suspended_waiting_child",
                                         !.waiting = wk[w].child, !.age = 0]]
  /\ wk' = [wk EXCEPT ![w].pc = to]
  /\ UNCHANGED <<trs, locks, lockedBy, resumed, everTerminal, everCompleted>>

\* processServiceCall on the suspension response: updateStackRunStatus(
\* suspended_waiting_child), then waiting_on_stack_run_id := the child
SuspensionReturns(w) ==
  LET s == wk[w].cur IN
  /\ wk[w].pc = "susp"
  /\ srs' = [updateStackRunStatus(srs, s, "suspended_waiting_child", Undef, Undef)
               EXCEPT ![s].waiting = wk[w].child]
  /\ wk' = [wk EXCEPT ![w].pc = "fin", ![w].path = "susp"]
  /\ UNCHANGED <<trs, locks, lockedBy, resumed, everTerminal, everCompleted>>

\* ResumeGuards without the test of waiting_on_stack_run_id and of the status
ResumeGuardsAlwaysResumes(w) ==
  /\ wk[w].pc = "rread"
  /\ wk' = [wk EXCEPT ![w].pc = "rwrite", ![w].path = "ok"]
  /\ UNCHANGED <<trs, srs, locks, lockedBy, resumed, everTerminal, everCompleted>>

\* resumeParentTask: read the parent and test the two guards
ResumeGuards(w) ==
  LET s == wk[w].cur
      p == srs[s].parent IN
  /\ wk[w].pc = "rread"
  /\ wk' = [wk EXCEPT ![w] =
              IF srs[p].status = "suspended_waiting_child" /\ srs[p].waiting = s
              THEN [@ EXCEPT !.pc = "rwrite", !.path = "ok"]
              ELSE [@ EXCEPT !.pc = "fin", !.path = "ok", !.res = Null]]
  /\ UNCHANGED <<trs, srs, locks, lockedBy, resumed, everTerminal, everCompleted>>

\* ResumeWrite that also clears the parent's waiting_on_stack_run_id
ResumeWriteClearsWaiting(w) ==
  LET s == wk[w].cur
      p == srs[s].parent IN
  /\ wk[w].pc = "rwrite"
  /\ srs' = [updateStackRunStatus(srs, p, "pending_resume", Undef, Undef)
               EXCEPT ![p].payload = formattedResult(srs[s].service, srs[s].method, wk[w].res),
                      ![p].waiting = NoId]
  /\ wk' = [wk EXCEPT ![w].pc = "rcall", ![w].res = Null]
  /\ UNCHANGED <<trs, locks, lockedBy, resumed, everTerminal, everCompleted>>

\* resumeParentTask: updateStackRunStatus(parent, 'pending_resume'), resume_payload := result
ResumeWrite(w) ==
  LET s == wk[w].cur
      p == srs[s].parent IN
  /\ wk[w].pc = "rwrite"
  /\ srs' = [updateStackRunStatus(srs, p, "pending_resume", Undef, Undef)
               EXCEPT ![p].payload = formattedResult(srs[s].service, srs[s].method, wk[w].res)]
  /\ wk' = [wk EXCEPT ![w].pc = "rcall", ![w].res = Null]
  /\ UNCHANGED <<trs, locks, lockedBy, resumed, everTerminal, everCompleted>>

\* ResumeReturns that marks the parent completed on the unrecognised answer
ResumeReturnsMarksCompleted(w) ==
  LET s == wk[w].cur IN
  /\ wk[w].pc = "rcall"
  /\ "ret" \in TaskOutcomes(srs[s].chain)
  /\ srs' = updateStackRunStatus(srs, srs[s].parent, "completed", "resp_tv", Undef)
  /\ wk' = [wk EXCEPT ![w].pc = "fin", ![w].path = "resumed"]
  /\ resumed' = [resumed EXCEPT ![s] = @ + 1]
  /\ everTerminal' = NoteTerminal(srs')
  /\ everCompleted' = NoteCompleted(srs')
  /\ UNCHANGED <<trs, locks, lockedBy>>

\* handleResumeRequest: the re-executed task code returns a value; the answer
\* {status: 'completed', result} has no data member, so resumeParentTask takes
\* its last branch and writes nothing
ResumeReturns(w) ==
  LET s == wk[w].cur IN
  /\ wk[w].pc = "rcall"
  /\ "ret" \in TaskOutcomes(srs[s].chain)
  /\ wk' = [wk EXCEPT ![w].pc = "fin", ![w].path = "resumed"]
  /\ resumed' = [resumed EXCEPT ![s] = @ + 1]
  /\ UNCHANGED <<trs, srs, locks, lockedBy, everTerminal, everCompleted>>

\* handleResumeRequest answers 500 (the task code throws or the child insert is
\* rejected): resumeParentTask's catch writes failed on the parent
ResumeFails(w) ==
  LET s == wk[w].cur
      p == srs[s].parent IN
  /\ wk[w].pc = "rcall"
  /\ \/ "throw" \in TaskOutcomes(srs[s].chain)
     \/ ("call" \in TaskOutcomes(srs[s].chain) /\ Len(srs) >= MaxStackRuns)
  /\ srs' = updateStackRunStatus(srs, p, "failed", Null, "resume")
  /\ wk' = [wk EXCEPT ![w].pc = "fin"]
  /\ resumed' = [resumed EXCEPT ![s] = @ + 1]
  /\ everTerminal' = NoteTerminal(srs')
  /\ everCompleted' = NoteCompleted(srs')
  /\ UNCHANGED <<trs, locks, lockedBy>>

\* processStackRunInternal: the task_run update of a completed root step, then
\* finally: unless bypassed, re-read the status and unlock if not suspended
Finish(w) ==
  LET s == wk[w].cur
      t == srs[s].chain IN
  /\ wk[w].pc = "fin"
  /\ trs' = IF wk[w].path = "ok" /\ IsRoot(s)
            THEN [trs EXCEPT ![t].status = "completed", ![t].result = "resp_tv",
                             ![t].ended = TRUE]
            ELSE trs
  /\ locks' = IF ~ wk[w].byp /\ srs[s].status # "suspended_waiting_child"
              THEN unlockTaskChain(locks, t) ELSE locks
  /\ lockedBy' = OwnerAfter(locks')
  /\ wk' = [wk EXCEPT ![w] = IdleWorker]
  /\ UNCHANGED <<srs, resumed, everTerminal, everCompleted>>

\* a scheduler worker dies in the middle of a request
Crash(w) ==
  /\ wk[w].pc \in {"select", "check", "lock", "setproc", "call", "susp", "rread", "rwrite", "rcall", "fin"}
  /\ wk' = [wk EXCEPT ![w] = IdleWorker]
  /\ UNCHANGED <<trs, srs, locks, lockedBy, resumed, everTerminal, everCompleted>>

\* a minute passes while every worker is idle or waits for an outbound call
Tick ==
  /\ \A w \in Workers : wk[w].pc \in {"idle", "call", "rcall"}
  /\ \/ \E t \in Chains : locks[t] # NoLock /\ locks[t] <= LockStaleMinutes
     \/ \E i \in Ids : srs[i].status = "processing" /\ srs[i].age <= StepStaleMinutes
  /\ locks' = [t \in Chains |-> IF locks[t] # NoLock /\ locks[t] <= LockStaleMinutes
                                THEN locks[t] + 1 ELSE locks[t]]
  /\ lockedBy' = lockedBy
  /\ srs' = [i \in Ids |-> IF srs[i].status = "processing" /\ srs[i].age <= StepStaleMinutes
                           THEN [srs[i] EXCEPT !.age = @ + 1] ELSE srs[i]]
  /\ UNCHANGED <<trs, wk, resumed, everTerminal, everCompleted>>

Next ==
  \/ \E k \in TaskKinds : Submit(k)
  \/ Tick
  \/ \E w \in Workers :
       \/ ServeNext(w)
       \/ \E s \in 1..MaxStackRuns : ServeDirect(w, s)
       \/ Select(w)
       \/ Check(w)
       \/ tryLockTaskChain(w)
       \/ SetProcessing(w)
       \/ EndpointReturns(w)
       \/ EndpointFails(w)
       \/ ExecuteReturns(w)
       \/ ExecuteFails(w)
       \/ makeExternalCallInsert(w, "call", "sbupd")
       \/ makeExternalCallUpdate(w, "sbupd", "susp")
       \/ SuspensionReturns(w)
       \/ ResumeGuards(w)
       \/ ResumeWrite(w)
       \/ ResumeReturns(w)
       \/ ResumeFails(w)
       \/ makeExternalCallInsert(w, "rcall", "rsbupd")
       \/ makeExternalCallUpdate(w, "rsbupd", "fin")
       \/ Finish(w)
       \/ Crash(w)

Spec == Init /\ [][Next]_vars

\* the steps of a worker that handles a request, once it has been accepted
WorkerStep(w) ==
  \/ Select(w)
  \/ Check(w)
  \/ tryLockTaskChain(w)
  \/ SetProcessing(w)
  \/ EndpointReturns(w)
  \/ EndpointFails(w)
  \/ ExecuteReturns(w)
  \/ ExecuteFails(w)
  \/ makeExternalCallInsert(w, "call", "sbupd")
  \/ makeExternalCallUpdate(w, "sbupd", "susp")
  \/ SuspensionReturns(w)
  \/ ResumeGuards(w)
  \/ ResumeWrite(w)
  \/ ResumeReturns(w)
  \/ ResumeFails(w)
  \/ makeExternalCallInsert(w, "rcall", "rsbupd")
  \/ makeExternalCallUpdate(w, "rsbupd", "fin")
  \/ Finish(w)

\* Runs without crashes and without time passing, in which process-next
\* requests keep arriving and every accepted request is handled to its end
\* (every outbound call returns).
NextFair ==
  \/ \E k \in TaskKinds : Submit(k)
  \/ \E w \in Workers : ServeNext(w) \/ WorkerStep(w)

FairSpec ==
  /\ Init
  /\ [][NextFair]_vars
  /\ \A w \in Workers : WF_vars(ServeNext(w)) /\ WF_vars(WorkerStep(w))

\* statusHandler whose completion patch leaves ended_at out
statusHandlerNoEndedAt(t) ==
  LET done == {i \in Ids : srs[i].chain = t /\ srs[i].status = "completed"} IN
  /\ t \in 1..Len(trs)
  /\ trs[t].status \in {"queued", "processing"}
  /\ trs' = IF done # {}
            THEN [trs EXCEPT ![t].status = "completed", ![t].result = srs[Max(done)].result]
            ELSE IF trs[t].age > StatusStaleMinutes /\ \E i \in Ids : srs[i].chain = t
            THEN [trs EXCEPT ![t].status = "error", ![t].ended = TRUE]
            ELSE trs
  /\ UNCHANGED <<srs, locks, lockedBy, wk, resumed, everTerminal, everCompleted>>

\* statusHandler: a task run that is still queued or processing is patched to
\* completed with the result of the newest completed stack run of its chain;
\* without one, and after 120 seconds, it is patched to 'error'
statusHandler(t) ==
  LET done == {i \in Ids : srs[i].chain = t /\ srs[i].status = "completed"} IN
  /\ t \in 1..Len(trs)
  /\ trs[t].status \in {"queued", "processing"}
  /\ trs' = IF done # {}
            THEN [trs EXCEPT ![t].status = "completed", ![t].result = srs[Max(done)].result,
                             ![t].ended = TRUE]
            ELSE IF trs[t].age > StatusStaleMinutes /\ \E i \in Ids : srs[i].chain = t
            THEN [trs EXCEPT ![t].status = "error", ![t].ended = TRUE]
            ELSE trs
  /\ UNCHANGED <<srs, locks, lockedBy, wk, resumed, everTerminal, everCompleted>>

\* a minute passes, counted also on the task runs (task_runs.created_at)
Minute ==
  /\ \A w \in Workers : wk[w].pc \in {"idle", "call", "rcall"}
  /\ \/ \E t \in Chains : locks[t] # NoLock /\ locks[t] <= LockStaleMinutes
     \/ \E i \in Ids : srs[i].status = "processing" /\ srs[i].age <= StepStaleMinutes
     \/ \E t \in 1..Len(trs) : trs[t].age <= StatusStaleMinutes
  /\ locks' = [t \in Chains |-> IF locks[t] # NoLock /\ locks[t] <= LockStaleMinutes
                                THEN locks[t] + 1 ELSE locks[t]]
  /\ lockedBy' = lockedBy
  /\ srs' = [i \in Ids |-> IF srs[i].status = "processing" /\ srs[i].age <= StepStaleMinutes
                           THEN [srs[i] EXCEPT !.age = @ + 1] ELSE srs[i]]
  /\ trs' = [t \in 1..Len(trs) |-> IF trs[t].age <= StatusStaleMinutes
                                   THEN [trs[t] EXCEPT !.age = @ + 1] ELSE trs[t]]
  /\ UNCHANGED <<wk, resumed, everTerminal, everCompleted>>

\* The scheduler under process-next requests together with status queries.
StatusNext ==
  \/ \E k \in TaskKinds : Submit(k)
  \/ Minute
  \/ \E t \in Chains : statusHandler(t)
  \/ \E w \in Workers : ServeNext(w) \/ WorkerStep(w)

StatusSpec == Init /\ [][StatusNext]_vars

\* Process-next requests only, with endpoints that answer objects and raw
\* arrays.
PayloadNext ==
  \/ \E k \in TaskKinds : Submit(k)
  \/ \E w \in Workers :
       \/ ServeNext(w)
       \/ WorkerStep(w)
       \/ EndpointReturnsWith(w, EndpointValues)

PayloadSpec == Init /\ [][PayloadNext]_vars

\* Several chains, process-next requests only, no crash and no time passing.
CrossNext ==
  \/ \E k \in TaskKinds : SubmitUpTo(MaxChains, k)
  \/ \E w \in Workers : ServeNext(w) \/ WorkerStep(w)

CrossSpec == Init /\ [][CrossNext]_vars

\* The bodies of the requests POSTed to the scheduler: the two triggers, a
\* JSON body that is neither, and a body req.json() cannot parse.
Bodies == {"process-next", "stackRunId", "invalid", "unparsable"}

\* where a worker that awaits req.json() of such a body stands
ReadingBody ==
  [b \in Bodies |->
     CASE b = "process-next" -> "json_next"
       [] b = "stackRunId"   -> "json_direct"
       [] b = "invalid"      -> "json_invalid"
       [] b = "unparsable"   -> "json_unparsable"]

\* serve: a POST request arrives and the handler awaits req.json()
serveReads(w, body, s) ==
  /\ wk[w].pc = "idle"
  /\ IF body = "stackRunId" THEN s \in Ids ELSE s = NoId
  /\ wk' = [wk EXCEPT ![w].pc = ReadingBody[body], ![w].cur = s]
  /\ UNCHANGED <<trs, srs, locks, lockedBy, resumed, everTerminal, everCompleted>>

\* serveParsed whose process-next branch selects without a sweeper pass
serveParsedSelectsUnswept(w) ==
  LET swept == wk[w].pc \in {"json_direct", "json_invalid"} IN
  /\ wk[w].pc \in {ReadingBody[b] : b \in Bodies}
  /\ locks' = IF swept THEN SweepLocks(locks) ELSE locks
  /\ lockedBy' = OwnerAfter(locks')
  /\ srs' = IF swept THEN SweepRuns(srs) ELSE srs
  /\ everTerminal' = NoteTerminal(srs')
  /\ everCompleted' = NoteCompleted(srs')
  /\ wk' = [wk EXCEPT ![w] =
       IF @.pc = "json_next" THEN [@ EXCEPT !.pc = "select"]
       ELSE IF @.pc = "json_direct" THEN [@ EXCEPT !.pc = "check"]
       ELSE IdleWorker]
  /\ UNCHANGED <<trs, resumed>>

\* serve, after req.json(): a body that does not parse throws into the catch
\* (500) before cleanupStaleLocks is reached; any parsed body runs the sweeper
\* pass and is then dispatched on (a body that names neither trigger: 400)
serveParsed(w) ==
  LET swept == wk[w].pc # "json_unparsable" IN
  /\ wk[w].pc \in {ReadingBody[b] : b \in Bodies}
  /\ locks' = IF swept THEN SweepLocks(locks) ELSE locks
  /\ lockedBy' = OwnerAfter(locks')
  /\ srs' = IF swept THEN SweepRuns(srs) ELSE srs
  /\ everTerminal' = NoteTerminal(srs')
  /\ everCompleted' = NoteCompleted(srs')
  /\ wk' = [wk EXCEPT ![w] =
       IF @.pc = "json_next" THEN [@ EXCEPT !.pc = "select"]
       ELSE IF @.pc = "json_direct" THEN [@ EXCEPT !.pc = "check"]
       ELSE IdleWorker]
  /\ UNCHANGED <<trs, resumed>>

\* Requests with every kind of body, time passing, no crash: a request is
\* received (req.json() is awaited) in one step and handled from there.
RequestNext ==
  \/ \E k \in TaskKinds : Submit(k)
  \/ Tick
  \/ \E w \in Workers :
       \/ \E body \in Bodies : \E s \in 0..MaxStackRuns : serveReads(w, body, s)
       \/ serveParsed(w)
       \/ WorkerStep(w)

RequestSpec == Init /\ [][RequestNext]_vars

(* ------------------------------ claims --------------------------------- *)
ChainRuns(t) == {i \in Ids : srs[i].chain = t}
Quiescent == \A w \in Workers : wk[w].pc = "idle"
\* b is the child its parent's waiting_on_stack_run_id names
Awaited(b) == srs[b].parent # NoId /\ srs[srs[b].parent].waiting = b
\* b is a child whose creating call has not yet recorded the suspension on its parent
InFlight(b) == \E w \in Workers : wk[w].pc \in {"sbupd", "rsbupd", "susp"} /\ wk[w].child = b

\* C1: at every instant at most one stack run per parent_task_run_id has
\* status processing.
C1_AtMostOneProcessingPerChain ==
  \A t \in Chains :
    Cardinality({i \in ChainRuns(t) : srs[i].status = "processing"}) <= 1

\* C2: a stack run b enters processing only when every older stack run a of
\* its chain has reached completed or failed, unless a or b is the child its
\* parent waits on (or b's parent is still being suspended on b).
C2_FifoWithinChain ==
  [][\A b \in Ids :
       (srs[b].status = "pending" /\ srs'[b].status = "processing"
          /\ ~ Awaited(b) /\ ~ InFlight(b))
       => \A a \in Ids :
            (a < b /\ srs[a].chain = srs[b].chain /\ ~ Awaited(a)) => a \in everTerminal]_vars

\* C3: no stack run leaves suspended_waiting_child while the stack run its
\* waiting_on_stack_run_id names has not reached completed or failed.
C3_ParentWaitsForChild ==
  [][\A p \in Ids :
       (srs[p].status = "suspended_waiting_child"
          /\ srs'[p].status # "suspended_waiting_child"
          /\ srs[p].waiting # NoId)
       => srs[p].waiting \in everTerminal]_vars

\* C4: for one (parent, child) pair the parent's task code is re-entered with
\* the child's result at most once, however often resumption is applied.
C4_ResumeAppliedOnce ==
  \A c \in 1..MaxStackRuns : resumed[c] <= 1

\* C5: every task run eventually reaches completed or failed.
C5_EveryTaskRunTerminates ==
  \A t \in Chains : [](t <= Len(trs) => <>(t <= Len(trs) /\ trs[t].status \in Terminal))

\* C6: the chain of a task whose code makes exactly one external call holds
\* exactly two stack runs, the root step and one child: never a third.
C6_OneCallTwoStackRuns ==
  \A t \in 1..Len(trs) :
    trs[t].kind = "call1" => Cardinality(ChainRuns(t)) <= 2

\* C7: when the resumed task code of a root step returns a value, the
\* scheduler ends the request with the root step completed and the task run
\* completed.
C7_RootCompletionOnResume ==
  [][\A w \in Workers :
       (Finish(w) /\ wk[w].path = "resumed" /\ IsRoot(srs[wk[w].cur].parent))
       => LET p == srs[wk[w].cur].parent IN
          /\ srs'[p].status = "completed"
          /\ srs'[p].result # Null
          /\ trs'[srs[p].chain].status = "completed"
          /\ trs'[srs[p].chain].result = srs'[p].result]_vars

\* C8: once a worker has handled a dispatch error of a root step, the step is
\* failed with the error recorded and the enclosing task run is failed.
C8_DispatchErrorFailsTaskRun ==
  \A s \in Ids :
    (IsRoot(s) /\ srs[s].status = "failed" /\ srs[s].error = "dispatch")
    => trs[srs[s].chain].status = "failed"

\* C9: once the awaited child has ended failed and every worker has finished
\* its request, the parent no longer sits in suspended_waiting_child on it.
C9_FailedChildResumesParent ==
  Quiescent =>
    \A c \in Ids :
      (srs[c].status = "failed" /\ srs[c].error = "dispatch" /\ srs[c].parent # NoId)
      => ~ (srs[srs[c].parent].status = "suspended_waiting_child"
            /\ srs[srs[c].parent].waiting = c)

\* C10: a sweeper pass fails every stack run that was processing for more than
\* two minutes, with a timeout error, and leaves no lock row for its chain.
C10_SweeperFailsAndUnlocks ==
  [][\A w \in Workers :
       (ServeNext(w) \/ \E s \in Ids : ServeDirect(w, s))
       => \A i \in Ids :
            (srs[i].status = "processing" /\ srs[i].age > StepStaleMinutes)
            => /\ srs'[i].status = "failed"
               /\ srs'[i].error = "timeout"
               /\ locks'[srs[i].chain] = NoLock]_vars

\* C11: once the root step of a chain is completed or failed by the scheduler
\* (not reclaimed by the sweeper) and every worker has finished its request,
\* no task_locks row remains for the chain.
C11_NoLockAfterChainEnd ==
  Quiescent =>
    \A s \in Ids :
      (IsRoot(s) /\ srs[s].status \in Terminal /\ srs[s].error # "timeout")
      => locks[srs[s].chain] = NoLock

\* C12: a chain's lock row is removed only by the worker that inserted it, or
\* by the sweeper once the row is older than five minutes.
C12_LockRemovedByOwnerOrSweeper ==
  [][\A t \in Chains :
       (locks[t] # NoLock /\ locks'[t] = NoLock)
       => \/ locks[t] > LockStaleMinutes
          \/ wk'[lockedBy[t]] # wk[lockedBy[t]]]_vars

\* processStackRunInternal would process s now: pending, first pending of its
\* chain, chain not busy, and bypass allowed or lock free
Ready(s) ==
  /\ srs[s].status = "pending"
  /\ ~ \E j \in Ids : j < s /\ srs[j].chain = srs[s].chain /\ srs[j].status = "pending"
  /\ ~ isTaskChainBusy(srs[s].chain)
  /\ canProcess(s) \/ locks[srs[s].chain] = NoLock

\* C13: a process-next request never ends without processing anything,
\* because its candidate's chain is busy or locked, while a pending step of
\* a different chain is ready.
C13_CrossChainIndependence ==
  [][\A w \in Workers :
       (wk[w].pc \in {"check", "lock"} /\ wk'[w].pc = "idle")
       => ~ \E s2 \in Ids : srs[s2].chain # srs[wk[w].cur].chain /\ Ready(s2)]_vars

\* C14: a stack run whose status is completed or failed keeps that status.
C14_TerminalStatusIsFinal ==
  [][\A i \in Ids : srs[i].status \in Terminal => srs'[i].status = srs[i].status]_vars

\* C15: a status query changes no task_run row and no stack_run row.
C15_StatusQueryWritesNothing ==
  [][(\E t \in Chains : statusHandler(t)) => (trs' = trs /\ srs' = srs)]_vars

\* C19: a task run whose status is completed has its result set, its ended_at
\* set and no waiting_on_stack_run_id, whether the scheduler or the status
\* handler wrote the completion.
C19_CompletedTaskRunIsWellFormed ==
  \A t \in 1..Len(trs) :
    trs[t].status = "completed"
    => (trs[t].result # Null /\ trs[t].ended /\ trs[t].waiting = NoId)

\* a task run completed by the status handler from a child's result while its
\* root step is not completed
C19_Witness ==
  \E t \in 1..Len(trs) :
    /\ trs[t].status = "completed"
    /\ trs[t].result = "ev"
    /\ \E s \in Ids : srs[s].chain = t /\ IsRoot(s) /\ srs[s].status # "completed"

\* the children of one parent step, in creation order
Siblings(b) == {a \in Ids : srs[a].parent = srs[b].parent}

C17_ReplayCreatesNoChild ==
  [][\A w \in Workers :
       makeExternalCallInsert(w, "rcall", "rsbupd")
       => trs[srs[wk[w].cur].chain].kind # "call1"]_vars

C20_PendingHasNoResult ==
  \A i \in Ids :
    srs[i].status \in {"pending", "pending_resume"} => srs[i].result = Null

\* C21: every value written to task_runs.status is one of queued, running,
\* suspended, completed, failed.
C21_TaskRunStatusInDomain ==
  \A t \in 1..Len(trs) :
    trs[t].status \in {"queued", "running", "suspended", "completed", "failed"}

\* processSingleStackRun: triggerStackProcessorAsync is called when
\* processStackRunInternal has returned true, which is the return that
\* follows the finally block
processSingleStackRunTriggers(w) == Finish(w)

\* C22: a worker that handles a process-next request and moves its stack run
\* to completed or failed fires a process-next request before the request
\* ends.
C22_TerminalStepFiresProcessNext ==
  [][\A w \in Workers :
       (wk[w].pc \in {"call", "fin"} /\ wk'[w].pc = "idle"
          /\ srs'[wk[w].cur].status \in Terminal)
       => processSingleStackRunTriggers(w)]_vars

\* C23: a worker issues the outbound call of a step (to the sandbox or to an
\* endpoint) only with the write of status processing made, and no call is
\* outstanding for a step whose stored status is pending; the resume call of
\* a parent step is likewise never outstanding for a pending parent.
C23_ProcessingBeforeCall ==
  [][\A w \in Workers :
       /\ (wk[w].pc # "call" /\ wk'[w].pc = "call")
            => srs'[wk'[w].cur].status = "processing"
       /\ wk'[w].pc = "call" => srs'[wk'[w].cur].status # "pending"
       /\ wk'[w].pc = "rcall" => srs'[srs'[wk'[w].cur].parent].status # "pending"]_vars

\* the call to an endpoint is outstanding for a child step that is processing
C23_Witness ==
  \E w \in Workers :
    /\ wk[w].pc = "call"
    /\ ~ IsRoot(wk[w].cur)
    /\ srs[wk[w].cur].status = "processing"

\* C24: a worker goes on to process a pending step without a lock insert
\* exactly when, at its read of the parent, the step has a parent stack run
\* that is suspended_waiting_child on this step, or completed, or names a
\* different child in waiting_on_stack_run_id; in every other case it goes on
\* only by inserting the lock row of the chain itself.
C24_BypassExactlyForAwaitedChild ==
  [][\A w \in Workers :
       LET s == wk[w].cur
           p == srs[s].parent
           mayBypass ==
             /\ p # NoId
             /\ \/ srs[p].status = "suspended_waiting_child" /\ srs[p].waiting = s
                \/ srs[p].status = "completed"
                \/ srs[p].waiting \notin {NoId, s}
       IN /\ (wk[w].pc # "setproc" /\ wk'[w].pc = "setproc")
             => \/ /\ wk[w].pc = "check" /\ mayBypass
                   /\ locks' = locks
                \/ /\ wk[w].pc = "lock" /\ ~ wk[w].byp
                   /\ locks[srs[s].chain] = NoLock
                   /\ locks'[srs[s].chain] # NoLock
                   /\ lockedBy'[srs[s].chain] = w
          /\ (wk[w].pc = "check" /\ wk'[w].pc = "lock") => ~ mayBypass]_vars

\* a second child is let through while its parent still names the first one
C24_Witness ==
  \E w \in Workers :
    LET s == wk[w].cur IN
    /\ wk[w].pc = "setproc" /\ wk[w].byp
    /\ srs[srs[s].parent].status # "completed"
    /\ srs[srs[s].parent].waiting \notin {NoId, s}

\* C25: when a worker that inserted the chain lock ends its handling of a
\* step, the lock row is deleted if the step ended completed or failed and is
\* still present if the step ended suspended_waiting_child.
C25_LockReleasedIffStepEnded ==
  [][\A w \in Workers :
       LET t == srs[wk[w].cur].chain IN
       (wk[w].pc \in {"call", "fin"} /\ wk'[w].pc = "idle" /\ ~ wk[w].byp
          /\ (FailStep(w) \/ Finish(w)))
       => /\ wk[w].path = "susp" => locks'[t] # NoLock
          /\ (wk[w].pc = "call" \/ wk[w].path = "ok") => locks'[t] = NoLock]_vars

\* the parent of child c is not suspended_waiting_child on c
NotWaitingFor(c) ==
  \/ srs[srs[c].parent].status # "suspended_waiting_child"
  \/ srs[srs[c].parent].waiting # c

\* C26: when a finished child's parent is not suspended_waiting_child, or
\* waits on another stack run, the resumption path writes no stack run and
\* no task run and makes no call to the sandbox: the worker goes straight
\* to the end of its request.
C26_ResumeGuardWritesNothing ==
  [][\A w \in Workers :
       (wk[w].pc = "rread" /\ wk'[w] # wk[w] /\ NotWaitingFor(wk[w].cur))
       => /\ srs' = srs /\ trs' = trs /\ resumed' = resumed
          /\ wk'[w].pc \in {"fin", "idle"}]_vars

\* a child has completed, its parent was not waiting on it, and the worker is
\* past the resumption path with the parent untouched and not resumed
C26_Witness ==
  \E w \in Workers :
    LET c == wk[w].cur IN
    /\ wk[w].pc = "fin" /\ wk[w].path = "ok"
    /\ ~ IsRoot(c) /\ srs[c].status = "completed"
    /\ resumed[c] = 0
    /\ srs[srs[c].parent].status = "pending_resume"
    /\ srs[srs[c].parent].waiting # c

\* C27: a stack run is taken from pending to processing by at most one
\* worker: the processing write of a worker always finds the step pending,
\* and no two workers have the same step dispatched at once.
C27_SingleDispatcher ==
  [][\A w \in Workers :
       /\ SetProcessing(w) => srs[wk[w].cur].status = "pending"
       /\ \A v \in Workers :
            (v # w /\ wk'[w].pc = "call" /\ wk'[v].pc = "call")
            => wk'[v].cur # wk'[w].cur]_vars

\* C28: the scheduler's suspension write repeats what the sandbox wrote: at
\* that write the step is suspended_waiting_child on the same child and has
\* not been resumed with that child's result.
C28_SuspensionWritesAgree ==
  [][\A w \in Workers :
       SuspensionReturns(w)
       => /\ srs[wk[w].cur].status = "suspended_waiting_child"
          /\ srs[wk[w].cur].waiting = wk[w].child
          /\ resumed[wk[w].child] = 0]_vars

\* the root stack run of chain t
Root(t) == CHOOSE s \in Ids : srs[s].chain = t /\ IsRoot(s)

\* C29: a task run is completed only if the root stack run of its chain has
\* been completed, and with the root stack run's result while that is still
\* completed; it is never completed while the root step has yet to complete.
C29_TaskRunCompletedWithRoot ==
  \A t \in 1..Len(trs) :
    trs[t].status = "completed"
    => /\ Root(t) \in everCompleted
       /\ srs[Root(t)].status = "completed" => trs[t].result = srs[Root(t)].result

\* the step the sandbox executes for worker w: the dispatched step, or on
\* resume the parent of the finished child
Executing(w) == IF wk[w].pc \in {"call", "sbupd"} THEN wk[w].cur ELSE srs[wk[w].cur].parent

\* the sandbox's two statements of one call, as positions of the worker
CallSites == {<<"call", "sbupd", "susp">>, <<"rcall", "rsbupd", "fin">>}

\* C30 as stated: the inserted child carries the service name the task code
\* requested.
C30_ChildCarriesRequestedService ==
  [][\A w \in Workers : \A site \in CallSites : \A serviceName \in Services :
       makeExternalCallInsertFor(w, site[1], site[2], serviceName)
       => srs'[Len(srs')].service = serviceName]_vars

\* C30, amended: each call inserts exactly one new stack run, pending, with
\* the calling step's parent_task_run_id, parent_stack_run_id the calling
\* step's id and the service name the service map gives for the requested
\* one (wrappedgapi for gapi, an unmapped name unchanged), and then sets the
\* calling step to suspended_waiting_child on that child; the child is not
\* dispatched by the sandbox, it stays pending and every other row is kept.
C30_SuspensionInsertsOneChild ==
  [][\A w \in Workers : \A site \in CallSites :
       LET p == Executing(w)
           c == Len(srs) + 1 IN
       /\ \A serviceName \in Services :
            makeExternalCallInsertFor(w, site[1], site[2], serviceName)
            => /\ Len(srs') = c
               /\ \A i \in Ids : srs'[i] = srs[i]
               /\ srs'[c].status = "pending"
               /\ srs'[c].chain = srs[p].chain
               /\ srs'[c].parent = p
               /\ srs'[c].service = (IF serviceName = "gapi" THEN "wrappedgapi" ELSE serviceName)
               /\ srs'[c].waiting = NoId /\ srs'[c].payload = Null /\ srs'[c].result = Null
               /\ wk'[w].child = c
       /\ makeExternalCallUpdate(w, site[2], site[3])
            => /\ Len(srs') = Len(srs)
               /\ srs'[p].status = "suspended_waiting_child"
               /\ srs'[p].waiting = wk[w].child
               /\ srs[wk[w].child].parent = p
               /\ \A i \in Ids \ {p} : srs'[i] = srs[i]]_vars

\* a call made with the alias gapi has suspended its step on the new child
C30_Witness ==
  \E w \in Workers :
    LET p == wk[w].cur
        c == wk[w].child IN
    /\ wk[w].pc = "susp"
    /\ srs[p].status = "suspended_waiting_child" /\ srs[p].waiting = c
    /\ srs[c].parent = p /\ srs[c].status = "pending"
    /\ srs[c].service = "wrappedgapi"

\* C31: once the root step of a chain has suspended on a child and the
\* request that dispatched it has ended, the enclosing task run has status
\* suspended and its waiting_on_stack_run_id names that child.
C31_RootSuspensionMirroredOnTaskRun ==
  Quiescent =>
    \A s \in Ids :
      (IsRoot(s) /\ srs[s].status = "suspended_waiting_child")
      => /\ trs[srs[s].chain].status = "suspended"
         /\ trs[srs[s].chain].waiting = srs[s].waiting

\* C32: a process-next request whose candidate is given up because the lock
\* of its chain could not be inserted does not end while another pending
\* step is ready to be processed.
C32_DeferredCandidateTriesNext ==
  [][\A w \in Workers :
       (wk[w].pc = "lock" /\ wk'[w].pc = "idle")
       => ~ \E s2 \in Ids : s2 # wk[w].cur /\ Ready(s2)]_vars

\* C33: a lock insert that fails, and the giving up after the last failed
\* attempt, change no stack run, no task run and no lock row: the candidate
\* keeps its status and the existing lock row keeps its owner and its age.
C33_LockFailureWritesNothing ==
  [][\A w \in Workers :
       (wk[w].pc = "lock" /\ wk'[w] # wk[w] /\ locks[srs[wk[w].cur].chain] # NoLock)
       => /\ srs' = srs /\ trs' = trs /\ locks' = locks /\ lockedBy' = lockedBy
          /\ everTerminal' = everTerminal
          /\ wk'[w].pc \in {"lock", "idle"}
          /\ wk'[w].pc = "lock" => wk'[w].att = wk[w].att + 1]_vars

\* the last attempt is about to be made on a lock another worker holds, with
\* the candidate still pending
C33_Witness ==
  \E w \in Workers :
    LET s == wk[w].cur IN
    /\ wk[w].pc = "lock" /\ wk[w].att = LockRetries
    /\ locks[srs[s].chain] # NoLock /\ lockedBy[srs[s].chain] # w
    /\ srs[s].status = "pending"

\* C34: when the sandbox has answered a resume and the worker has handled
\* the answer, the parent is no longer pending_resume: it is completed,
\* failed, or suspended_waiting_child on a child other than the finished one.
C34_PendingResumeIsTransient ==
  [][\A w \in Workers :
       LET c == wk[w].cur
           p == srs[c].parent IN
       (wk[w].pc \in {"rcall", "rsbupd"} /\ wk'[w].pc = "fin")
       => \/ srs'[p].status \in Terminal
          \/ srs'[p].status = "suspended_waiting_child" /\ srs'[p].waiting # c]_vars

C36_UnknownResumeAnswerWritesNothing ==
  [][\A w \in Workers :
       (wk[w].pc = "rcall" /\ wk'[w].pc = "fin" /\ wk'[w].path = "resumed")
         \/ (wk[w].pc = "fin" /\ wk[w].path = "resumed" /\ wk'[w] # wk[w])
       => srs' = srs /\ trs' = trs /\ everTerminal' = everTerminal]_vars

\* the unrecognised answer has been handled and the parent is still
\* pending_resume with its payload
C36_Witness ==
  \E w \in Workers :
    LET p == srs[wk[w].cur].parent IN
    /\ wk[w].pc = "fin" /\ wk[w].path = "resumed"
    /\ srs[p].status = "pending_resume" /\ srs[p].payload # Null
    /\ resumed[wk[w].cur] = 1

\* C37: a sweeper pass deletes exactly the task_locks rows older than 5
\* minutes and sets to failed, with the timeout error, exactly the stack_runs
\* rows that are processing and older than 2 minutes; every other lock, every
\* other stack run, every other field of the failed rows and every task run
\* is as it was.
C37_SweeperChangesOnlyStaleRows ==
  [][\A w \in Workers :
       (wk[w].pc = "idle" /\ wk'[w].pc # "idle")
       => /\ \A t \in Chains :
               locks'[t] = IF locks[t] # NoLock /\ locks[t] > LockStaleMinutes
                           THEN NoLock ELSE locks[t]
          /\ Len(srs') = Len(srs)
          /\ \A i \in Ids :
               IF srs[i].status = "processing" /\ srs[i].age > StepStaleMinutes
               THEN /\ srs'[i].status = "failed"
                    /\ srs'[i].error = "timeout"
                    /\ [srs'[i] EXCEPT !.status = "processing", !.error = srs[i].error] = srs[i]
               ELSE srs'[i] = srs[i]
          /\ trs' = trs]_vars

\* a pass has failed a stale processing row and has left the chain's lock,
\* which is younger than 5 minutes, and the chain's other rows alone
C37_Witness ==
  \E w \in Workers : \E i \in Ids :
    /\ wk[w].pc \in {"select", "check"}
    /\ srs[i].status = "failed" /\ srs[i].error = "timeout"
    /\ locks[srs[i].chain] # NoLock /\ locks[srs[i].chain] <= LockStaleMinutes
    /\ \E j \in Ids : j # i /\ srs[j].status = "suspended_waiting_child"

\* C38: when processStackRunInternal reads a stack run whose stored status is
\* not pending, the handling ends there: no stack run, task run or lock row
\* changes, no resume is posted, the worker goes to no outbound call, and the
\* process-next request fires no follow-up trigger.
C38_NonPendingRequestChangesNothing ==
  [][\A w \in Workers :
       (wk[w].pc = "check" /\ wk'[w] # wk[w] /\ srs[wk[w].cur].status # "pending")
       => /\ srs' = srs /\ trs' = trs
          /\ locks' = locks /\ lockedBy' = lockedBy
          /\ resumed' = resumed
          /\ wk'[w] = IdleWorker
          /\ ~ processSingleStackRunTriggers(w)]_vars

\* a request for a suspended stack run has been turned away while its chain
\* had no processing row and no lock, and the row is as it was
C38_Witness ==
  \E w \in Workers : \E s \in Ids :
    /\ wk[w].pc = "check" /\ wk[w].cur = s
    /\ srs[s].status = "suspended_waiting_child"
    /\ ~ isTaskChainBusy(srs[s].chain)
    /\ locks[srs[s].chain] = NoLock

\* C39: tryLockTaskChain makes at most 3 insert attempts: the attempt in
\* progress is numbered 1..3, an attempt that finds no lock row inserts it and
\* returns true at once, a failed attempt before the third is followed by the
\* next one, the third failed attempt returns false, and a worker that is
\* trying to lock always comes out of tryLockTaskChain.
C39_LockAttemptsBounded ==
  /\ [](\A w \in Workers : wk[w].pc = "lock" => wk[w].att \in 1..LockRetries)
  /\ [][\A w \in Workers :
          LET t == srs[wk[w].cur].chain IN
          (wk[w].pc = "lock" /\ wk'[w] # wk[w])
          => IF locks[t] = NoLock
             THEN wk'[w].pc = "setproc" /\ locks'[t] # NoLock /\ lockedBy'[t] = w
             ELSE IF wk[w].att < LockRetries
             THEN wk'[w].pc = "lock" /\ wk'[w].att = wk[w].att + 1
             ELSE wk'[w] = IdleWorker /\ locks' = locks]_vars
  /\ \A w \in Workers : (wk[w].pc = "lock") ~> (wk[w].pc # "lock")

\* the third attempt is in progress and the lock is still held by the other worker
C39_Witness ==
  \E w \in Workers :
    /\ wk[w].pc = "lock" /\ wk[w].att = LockRetries
    /\ locks[srs[wk[w].cur].chain] # NoLock
    /\ lockedBy[srs[wk[w].cur].chain] \notin {w, NoWorker}

====
